---- MODULE Spec2Model ----
(***************************************************************************)
(* Model of the benchmark-log parsing and run-aggregation core of tfbvis   *)
(* (src/main.py): no_units, the section splitter and grammar parser of     *)
(* get_rps_and_latency, the best-run selection and the windowed resource   *)
(* statistics of get_test_results.                                         *)
(*                                                                         *)
(* Text is modelled as a sequence of tokens.  A token is a word (a maximal *)
(* run of non-blank characters the code tests as a unit), a number (its    *)
(* digit strings before and after the decimal point) or a white-space      *)
(* character.  Python floats are modelled as exact decimals mant * 10^exp. *)
(***************************************************************************)
EXTENDS Integers, Sequences, FiniteSets, TLC

VARIABLES
    \* get_rps_and_latency, the line loop (src/main.py:228-251)
    lines,          \* the lines of the raw log read so far
    section,        \* running section index
    inheader,       \* between an opening and a closing dash delimiter
    text_sections,  \* section index -> accumulated text
    status,         \* "reading" | "eof" | "none" (return None) | "KeyError"
    \* no_units (src/main.py:189-224)
    nums,           \* the argument of the last call
    result,         \* what the last call returned or raised
    \* get_test_results (src/main.py:378-416)
    pc,             \* position in the two nested loops
    testtype,       \* index of the current test type in TestTypes
    index,          \* index of the current row of the framework frame
    testresults,    \* test type -> list of FrameworkSummary
    verification,   \* content of paths.verification, once read
    raw,            \* content of paths.raw, once read
    rpslats,        \* list of RawSummary of the current pair
    rpslat,         \* the selected run
    stats,          \* content of paths.stats, once read
    statframe,      \* the rows of the stats frame inside the window
    memory,         \* MemorySummary of the current pair
    cpu,            \* CpuSummary of the current pair
    outcomes        \* per processed pair: what became of it

splitVars == <<lines, section, inheader, text_sections, status>>
unitVars == <<nums, result>>
aggVars == <<pc, testtype, index, testresults, verification, raw, rpslats,
             rpslat, stats, statframe, memory, cpu, outcomes>>
vars == <<lines, section, inheader, text_sections, status, nums, result,
          pc, testtype, index, testresults, verification, raw, rpslats,
          rpslat, stats, statframe, memory, cpu, outcomes>>

-----------------------------------------------------------------------------
\* Tokens

W(s) == [k |-> "w", w |-> s, int |-> <<>>, frac |-> <<>>]
N(i, f) == [k |-> "n", w |-> "", int |-> i, frac |-> f]
SP == [k |-> "s", w |-> " ", int |-> <<>>, frac |-> <<>>]
NL == [k |-> "s", w |-> "\n", int |-> <<>>, frac |-> <<>>]
SEMI == W(";")

RECURSIVE Words(_)
Words(ss) == IF ss = <<>> THEN <<>> ELSE <<W(Head(ss))>> \o Words(Tail(ss))

RECURSIVE ToDigits(_)
ToDigits(n) == IF n < 10 THEN <<n>> ELSE Append(ToDigits(n \div 10), n % 10)

IntTok(n) == N(ToDigits(n), <<>>)

\* str.startswith / str.endswith / str.strip / the "in" substring test
StartsWith(line, prefix) ==
    /\ Len(line) >= Len(prefix)
    /\ SubSeq(line, 1, Len(prefix)) = prefix

EndsWith(line, suffix) ==
    /\ Len(line) >= Len(suffix)
    /\ SubSeq(line, Len(line) - Len(suffix) + 1, Len(line)) = suffix

RECURSIVE LStrip(_)
LStrip(line) ==
    IF line # <<>> /\ Head(line).k = "s" THEN LStrip(Tail(line)) ELSE line

RECURSIVE RStrip(_)
RStrip(line) ==
    IF line # <<>> /\ line[Len(line)].k = "s"
    THEN RStrip(SubSeq(line, 1, Len(line) - 1))
    ELSE line

Strip(line) == RStrip(LStrip(line))

Contains(text, tok) == \E i \in 1..Len(text) : text[i] = tok

\* F applied to the value of v, with v evaluated once
Once(v, F(_)) == CHOOSE r \in {F(x) : x \in {v}} : TRUE

-----------------------------------------------------------------------------
\* Numbers

RECURSIVE DigitsVal(_)
DigitsVal(ds) ==
    IF ds = <<>> THEN 0
    ELSE 10 * DigitsVal(SubSeq(ds, 1, Len(ds) - 1)) + ds[Len(ds)]

RECURSIVE Pow10(_)
Pow10(k) == IF k <= 0 THEN 1 ELSE 10 * Pow10(k - 1)

RECURSIVE Norm(_, _)
Norm(m, e) ==
    IF m = 0 THEN [mant |-> 0, exp |-> 0]
    ELSE IF m % 10 = 0 THEN Norm(m \div 10, e + 1)
    ELSE [mant |-> m, exp |-> e]

\* float(s) and int(s) of a numeric string
Float(tok) == Norm(DigitsVal(tok.int \o tok.frac), 0 - Len(tok.frac))
ParseInt(tok) == DigitsVal(tok.int)

\* x * 10^k
Scale(d, k) == IF d.mant = 0 THEN d ELSE [d EXCEPT !.exp = @ + k]

MinExp(a, b) == IF a.exp < b.exp THEN a.exp ELSE b.exp
DecLess(a, b) ==
    a.mant * Pow10(a.exp - MinExp(a, b)) < b.mant * Pow10(b.exp - MinExp(a, b))
DecLeq(a, b) == ~DecLess(b, a)

-----------------------------------------------------------------------------
\* no_units

Value(d) == [err |-> "", msg |-> "", val |-> d]
Raise(e, m) == [err |-> e, msg |-> m, val |-> [mant |-> 0, exp |-> 0]]

\* no_units with the "B" branch scaled like "KB"
no_units_bytes_as_kb(ns) ==
    IF Len(ns) = 0 THEN Raise("ValueError", "nums must be non-empty list of str")
    ELSE IF Len(ns) > 2 THEN Raise("ValueError", "nums must have length less than 3")
    ELSE IF ns[1].k # "n" THEN Raise("ValueError", "could not convert string to float")
    ELSE IF Len(ns) = 1 THEN Value(Float(ns[1]))
    ELSE LET num == Float(ns[1])
             unit == ns[2].w
         IN  IF unit = "%" THEN Value(num)
             ELSE IF unit = "k" THEN Value(Scale(num, 3))
             ELSE IF unit = "GB" THEN Value(Scale(num, 3))
             ELSE IF unit = "MB" THEN Value(num)
             ELSE IF unit = "KB" THEN Value(Scale(num, 0 - 3))
             ELSE IF unit = "B" THEN Value(Scale(num, 0 - 3))
             ELSE IF unit = "s" THEN Value(Scale(num, 3))
             ELSE IF unit = "ms" THEN Value(num)
             ELSE IF unit = "us" THEN Value(Scale(num, 0 - 3))
             ELSE Raise("ValueError", "Unknown unit")

no_units(ns) ==
    IF Len(ns) = 0 THEN Raise("ValueError", "nums must be non-empty list of str")
    ELSE IF Len(ns) > 2 THEN Raise("ValueError", "nums must have length less than 3")
    ELSE IF ns[1].k # "n" THEN Raise("ValueError", "could not convert string to float")
    ELSE IF Len(ns) = 1 THEN Value(Float(ns[1]))
    ELSE LET num == Float(ns[1])
             unit == ns[2].w
         IN  IF unit = "%" THEN Value(num)
             ELSE IF unit = "k" THEN Value(Scale(num, 3))
             ELSE IF unit = "GB" THEN Value(Scale(num, 3))
             ELSE IF unit = "MB" THEN Value(num)
             ELSE IF unit = "KB" THEN Value(Scale(num, 0 - 3))
             ELSE IF unit = "B" THEN Value(Scale(num, 0 - 6))
             ELSE IF unit = "s" THEN Value(Scale(num, 3))
             ELSE IF unit = "ms" THEN Value(num)
             ELSE IF unit = "us" THEN Value(Scale(num, 0 - 3))
             ELSE Raise("ValueError", "Unknown unit")

-----------------------------------------------------------------------------
\* get_rps_and_latency: the line loop

DASHES == <<W("----")>>
RUNNING == <<W("Running")>>
UNABLE == Words(<<"unable", "to", "connect", "to">>)
ZEROREQ == <<IntTok(0), W("requests")>>
SOCKERR == Words(<<"Socket", "errors">>)
NANPCT == <<W("nan%")>>

SplitInit ==
    [section |-> 0, inheader |-> FALSE, text_sections |-> <<>>, status |-> "reading"]

\* text_sections[section] = ""; the keys are always 1..section
NewSection(ts, sec) == [k \in (DOMAIN ts) \cup {sec} |-> IF k = sec THEN <<>> ELSE ts[k]]

\* AbortMarker without the "Socket errors" test
AbortMarkerNoSocket(line) ==
    \/ StartsWith(line, UNABLE)
    \/ StartsWith(line, ZEROREQ)
    \/ EndsWith(line, NANPCT)

AbortMarker(line) ==
    \/ StartsWith(line, UNABLE)
    \/ StartsWith(line, ZEROREQ)
    \/ StartsWith(line, SOCKERR)
    \/ EndsWith(line, NANPCT)

\* one iteration of "for line in rps_file"
SplitLine(st, rawline) ==
    LET line == Strip(rawline) IN
    IF StartsWith(line, DASHES)
    THEN IF st.inheader
         THEN [st EXCEPT !.inheader = FALSE]
         ELSE [st EXCEPT !.inheader = TRUE,
                         !.section = @ + 1,
                         !.text_sections = NewSection(@, st.section + 1)]
    ELSE IF st.inheader \/ StartsWith(line, RUNNING) THEN st
    ELSE IF AbortMarker(line) THEN [st EXCEPT !.status = "none"]
    ELSE IF st.section \notin DOMAIN st.text_sections
         THEN [st EXCEPT !.status = "KeyError"]
    ELSE [st EXCEPT !.text_sections[st.section] = @ \o <<SP>> \o line \o <<SEMI, NL>>]

\* "for line in rps_file" over the lines lo..hi, one half after the other;
\* the loop is left as soon as a line ends it
RECURSIVE SplitRange(_, _, _, _)
SplitRange(st, ls, lo, hi) ==
    IF st.status # "reading" \/ lo > hi THEN st
    ELSE IF lo = hi THEN SplitLine(st, ls[lo])
    ELSE Once(SplitRange(st, ls, lo, (lo + hi) \div 2),
              LAMBDA mid : SplitRange(mid, ls, (lo + hi) \div 2 + 1, hi))

SplitLines(st, ls) ==
    Once(SplitRange(st, ls, 1, Len(ls)),
         LAMBDA end : IF end.status = "reading" THEN [end EXCEPT !.status = "eof"] ELSE end)

-----------------------------------------------------------------------------
\* The splitter read line by line, over every raw log of at most MaxLines lines

MaxLines == 4

DashLine == <<W("----")>>
BannerLine == <<SP, W("Running"), W("Primer")>>
BodyLine == <<W("Requests/sec:"), N(<<1, 0, 0>>, <<5>>)>>
StartLine == <<W("STARTTIME"), IntTok(10)>>
EmptyLine == <<>>
UnableLine == Words(<<"unable", "to", "connect", "to", "tfb-server">>)
ZeroReqLine == <<IntTok(0), W("requests"), W("in"), N(<<1, 5>>, <<0>>), W("s")>>
SocketLine == <<SP, SP>> \o Words(<<"Socket", "errors", ":", "connect">>) \o <<IntTok(3)>>
NanLine == <<W("Latency"), N(<<0>>, <<0, 0>>), W("us"), W("-"), W("nan%"), NL>>

MarkerLines == {UnableLine, ZeroReqLine, SocketLine, NanLine}
RawLines == {DashLine, BannerLine, BodyLine, StartLine, EmptyLine} \cup MarkerLines

SplitIdle ==
    /\ lines = <<>>
    /\ section = 0
    /\ inheader = FALSE
    /\ text_sections = <<>>
    /\ status = "idle"

UnitIdle ==
    /\ nums = <<>>
    /\ result = Raise("", "")

AggIdle ==
    /\ pc = "idle"
    /\ testtype = 0
    /\ index = 0
    /\ testresults = <<>>
    /\ verification = <<>>
    /\ raw = <<>>
    /\ rpslats = <<>>
    /\ rpslat = <<>>
    /\ stats = <<>>
    /\ statframe = <<>>
    /\ memory = <<>>
    /\ cpu = <<>>
    /\ outcomes = <<>>

InitSplit ==
    /\ lines = <<>>
    /\ section = SplitInit.section
    /\ inheader = SplitInit.inheader
    /\ text_sections = SplitInit.text_sections
    /\ status = SplitInit.status
    /\ UnitIdle
    /\ AggIdle

ReadLine ==
    /\ status = "reading"
    /\ Len(lines) < MaxLines
    /\ \E l \in RawLines :
       \E nx \in {SplitLine([section |-> section, inheader |-> inheader,
                             text_sections |-> text_sections, status |-> status], l)} :
             /\ lines' = Append(lines, l)
             /\ section' = nx.section
             /\ inheader' = nx.inheader
             /\ text_sections' = nx.text_sections
             /\ status' = nx.status
    /\ UNCHANGED <<unitVars, aggVars>>

EndOfFile ==
    /\ status = "reading"
    /\ status' = "eof"
    /\ UNCHANGED <<lines, section, inheader, text_sections, unitVars, aggVars>>

NextSplit == ReadLine \/ EndOfFile

SpecSplit == InitSplit /\ [][NextSplit]_vars

-----------------------------------------------------------------------------
\* Properties of the splitter (SpecSplit)

IsDelimiter(l) == StartsWith(Strip(l), DASHES)
IsBanner(l) == StartsWith(Strip(l), RUNNING)
IsMarker(l) ==
    \/ StartsWith(Strip(l), UNABLE)
    \/ StartsWith(Strip(l), ZEROREQ)
    \/ StartsWith(Strip(l), SOCKERR)
    \/ EndsWith(Strip(l), NANPCT)

\* line i of the log lies strictly between an opening and a closing delimiter
InHeaderAt(i) ==
    /\ ~IsDelimiter(lines[i])
    /\ Cardinality({j \in 1..(i - 1) : IsDelimiter(lines[j])}) % 2 = 1

\* C1 as stated: any line of the log that begins with "unable to connect to",
\* "0 requests" or "Socket errors", or ends with "nan%", wherever it stands,
\* makes the splitter stop at that line and return the invalid-file sentinel.
C1_AnyMarkerAborts ==
    \A i \in 1..Len(lines) :
        IsMarker(lines[i]) => (status = "none" /\ i = Len(lines))

\* C1 amended: a marker line that the splitter reads outside a header block
\* (and that is neither a delimiter nor a "Running" banner) stops the splitter
\* at that line with the invalid-file sentinel, whatever was collected before;
\* a marker inside a header block is skipped and never yields the sentinel.
C1_BodyMarkerAborts ==
    /\ \A i \in 1..Len(lines) :
          (IsMarker(lines[i]) /\ ~InHeaderAt(i) /\ ~IsDelimiter(lines[i])
              /\ ~IsBanner(lines[i]))
          => (status = "none" /\ i = Len(lines))
    /\ status = "none" =>
          (IsMarker(lines[Len(lines)]) /\ ~InHeaderAt(Len(lines)))

\* C1 witness: the sentinel is returned although a complete section with text
\* was collected before the offending line.
C1_Witness ==
    /\ status = "none"
    /\ Len(text_sections) >= 1
    /\ text_sections[1] # <<>>

RECURSIVE Flatten(_)
Flatten(ts) == IF ts = <<>> THEN <<>> ELSE Head(ts) \o Flatten(Tail(ts))

RECURSIVE Accumulated(_)
Accumulated(n) ==
    IF n = 0 THEN <<>>
    ELSE Accumulated(n - 1) \o
         (IF IsDelimiter(lines[n]) \/ InHeaderAt(n) THEN <<>>
          ELSE <<SP>> \o Strip(lines[n]) \o <<SEMI, NL>>)

\* C9 as stated: in a log without abort markers the delimiters alternately
\* open and close a header, the section index grows by one per opened header
\* (sections keyed 1..n), and every line outside a header, wherever it stands,
\* is appended with ";" and newline to the current buffer without failing.
C9_Accumulation ==
    (\A i \in 1..Len(lines) : ~IsMarker(lines[i])) =>
        /\ status # "KeyError"
        /\ section = (Cardinality({j \in 1..Len(lines) : IsDelimiter(lines[j])}) + 1) \div 2
        /\ DOMAIN text_sections = 1..section
        /\ Flatten(text_sections) = Accumulated(Len(lines))

-----------------------------------------------------------------------------
\* no_units called on every argument list of at most three components

MaxMag == 3

Magnitudes ==
    {N(ToDigits(a), f) : a \in (0..MaxMag) \cup {12, 100},
                         f \in {<<>>, <<5>>, <<3, 4>>, <<2, 0>>}}
Suffixes ==
    {W(u) : u \in {"%", "k", "GB", "MB", "KB", "B", "s", "ms", "us",
                   "XX", "Ms", "kb", "m", "", "sec"}}
UnitInputs ==
    {<<>>} \cup {<<m>> : m \in Magnitudes}
           \cup {<<m, u>> : m \in Magnitudes, u \in Suffixes}
           \cup {<<m, u, v>> : m \in Magnitudes, u \in {W("ms"), W("XX")}, v \in {W("ms")}}

InitUnits ==
    /\ nums \in UnitInputs
    /\ result = Raise("pending", "")
    /\ SplitIdle
    /\ AggIdle

CallNoUnits ==
    /\ result.err = "pending"
    /\ result' = no_units(nums)
    /\ UNCHANGED <<nums, splitVars, aggVars>>

NextUnits == CallNoUnits

SpecUnits == InitUnits /\ [][NextUnits]_vars

\* the factor the claim gives for each suffix, as a power of ten
ClaimedExp(u) ==
    CASE u \in {"%", "ms", "MB"} -> 0
      [] u \in {"k", "s", "GB"} -> 3
      [] u \in {"us", "KB"} -> 0 - 3
      [] u = "B" -> 0 - 6

\* numeric equality of two decimals, whatever their representation
DecEq(a, b) ==
    a.mant * Pow10(a.exp - MinExp(a, b)) = b.mant * Pow10(b.exp - MinExp(a, b))

\* the magnitude written by token m, times 10^e
Magnitude(m, e) == [mant |-> DigitsVal(m.int \o m.frac), exp |-> e - Len(m.frac)]

\* C6: no_units returns m for no suffix, "%", "ms" and "MB", m*1e3 for "k", "s"
\* and "GB", m*1e-3 for "us" and "KB", m*1e-6 for "B"; any other suffix raises
\* the unknown-unit error and zero or more than two components raise the arity
\* error, with no value returned.
C6_NoUnits ==
    result.err # "pending" =>
        CASE Len(nums) = 0 ->
                 /\ result.err = "ValueError"
                 /\ result.msg = "nums must be non-empty list of str"
          [] Len(nums) > 2 ->
                 /\ result.err = "ValueError"
                 /\ result.msg = "nums must have length less than 3"
          [] Len(nums) = 1 ->
                 /\ result.err = ""
                 /\ DecEq(result.val, Magnitude(nums[1], 0))
          [] Len(nums) = 2 ->
                 IF nums[2].w \in {"%", "ms", "MB", "k", "s", "GB", "us", "KB", "B"}
                 THEN /\ result.err = ""
                      /\ DecEq(result.val, Magnitude(nums[1], ClaimedExp(nums[2].w)))
                 ELSE /\ result.err = "ValueError"
                      /\ result.msg = "Unknown unit"

\* C6 witness: a fractional magnitude in bytes has been normalised to megabytes.
C6_Witness ==
    /\ result.err = ""
    /\ Len(nums) = 2
    /\ nums[2].w = "B"
    /\ nums[1].frac = <<3, 4>>
    /\ result.val.mant # 0

-----------------------------------------------------------------------------
\* get_rps_and_latency_parser: the grammar, and pyparsing's matching of it.
\* An element is a literal, Integer, Floating, FloatUnit or Percent; an entry
\* of the parser is a Group of elements (optional or not) or a bare literal.

Lit(ss) == [e |-> "lit", toks |-> Words(ss)]
Integer == [e |-> "int", toks |-> <<>>]
Floating == [e |-> "float", toks |-> <<>>]
FloatUnit == [e |-> "floatunit", toks |-> <<>>]
Percent == [e |-> "percent", toks |-> <<>>]

Group(es) == [elems |-> es, optional |-> FALSE]
Optional(g) == [g EXCEPT !.optional = TRUE]

count_conn == Group(<<Integer, Lit(<<"threads", "and">>), Integer, Lit(<<"connections", ";">>)>>)
thread_stats == Group(<<Lit(<<"Thread", "Stats", "Avg", "Stdev", "Max", "+/-", "Stdev", ";">>)>>)
lat_stats == Group(<<Lit(<<"Latency">>), FloatUnit, FloatUnit, FloatUnit, Percent, Lit(<<";">>)>>)
rps_stats == Group(<<Lit(<<"Req/Sec">>), FloatUnit, FloatUnit, FloatUnit, Percent, Lit(<<";">>)>>)
lat_distribution == Group(<<Lit(<<"Latency", "Distribution", ";">>)>>)
lat_dist == Group(<<Percent, FloatUnit, Lit(<<";">>)>>)
req_count == Group(<<Integer, Lit(<<"requests", "in">>), FloatUnit, Lit(<<",">>), FloatUnit, Lit(<<"read", ";">>)>>)
NON2XX == Words(<<"Non-2xx", "or", "3xx", "responses:">>)
non_2xx == Optional(Group(<<[e |-> "lit", toks |-> NON2XX], Integer, Lit(<<";">>)>>))
rps_summary == Group(<<Lit(<<"Requests/sec:">>), Floating, Lit(<<";">>)>>)
tps_summary == Group(<<Lit(<<"Transfer/sec:">>), FloatUnit, Lit(<<";">>)>>)
start_end == Group(<<Lit(<<"STARTTIME">>), Integer, Lit(<<";">>), Lit(<<"ENDTIME">>), Integer, Lit(<<";">>)>>)

get_rps_and_latency_parser ==
    <<count_conn, thread_stats, lat_stats, rps_stats, lat_distribution,
      lat_dist, lat_dist, lat_dist, lat_dist,
      req_count, non_2xx, rps_summary, tps_summary, start_end>>

\* words that are not made of letters only (Word(alphas) does not match them)
NonAlpha ==
    {"", ";", "%", ",", ":", "-", "@", "+/-", "nan%", "----", "-H", "Req/Sec",
     "Requests/sec:", "Transfer/sec:", "responses:", "Non-2xx", "3xx",
     "tfb-server", "http://tfb-server:8080/json"}

RECURSIVE SkipWs(_, _)
SkipWs(text, p) ==
    IF p <= Len(text) /\ text[p].k = "s" THEN SkipWs(text, p + 1) ELSE p

IsNum(text, p) == p <= Len(text) /\ text[p].k = "n"
IsAlphaWord(text, p) == p <= Len(text) /\ text[p].k = "w" /\ text[p].w \notin NonAlpha
IsLit(text, p, toks) ==
    /\ p + Len(toks) - 1 <= Len(text)
    /\ SubSeq(text, p, p + Len(toks) - 1) = toks

Fail == [ok |-> FALSE, pos |-> 0, items |-> <<>>]
Match(p, its) == [ok |-> TRUE, pos |-> p, items |-> its]

\* one element at position p0; the item it yields is a list of tokens
MatchAt(text, p, el) ==
    CASE el.e = "lit" ->
             IF IsLit(text, p, el.toks) THEN Match(p + Len(el.toks), <<el.toks>>) ELSE Fail
      [] el.e = "int" ->
             \* Word(nums) stops at a decimal point, which no literal that
             \* follows an Integer in this grammar accepts
             IF IsNum(text, p) /\ text[p].frac = <<>> THEN Match(p + 1, <<<<text[p]>>>>) ELSE Fail
      [] el.e = "float" ->
             IF IsNum(text, p) THEN Match(p + 1, <<<<text[p]>>>>) ELSE Fail
      [] el.e = "floatunit" ->
             IF ~IsNum(text, p) THEN Fail
             ELSE Once(SkipWs(text, p + 1), LAMBDA q :
                  IF IsAlphaWord(text, q)
                  THEN Match(q + 1, <<<<text[p], text[q]>>>>)
                  ELSE Match(p + 1, <<<<text[p]>>>>))
      [] el.e = "percent" ->
             IF ~IsNum(text, p) THEN Fail
             ELSE Once(SkipWs(text, p + 1), LAMBDA q :
                  IF IsLit(text, q, <<W("%")>>)
                  THEN Match(q + 1, <<<<text[p], W("%")>>>>)
                  ELSE Fail)

\* pyparsing skips white space before every element
MatchElem(text, p0, el) == Once(SkipWs(text, p0), LAMBDA p : MatchAt(text, p, el))

\* the elements of a group from the i-th on, started at position m.pos
RECURSIVE MatchElems(_, _, _, _)
MatchElems(text, m, els, i) ==
    IF i > Len(els) THEN m
    ELSE Once(MatchElem(text, m.pos, els[i]), LAMBDA e :
              IF ~e.ok THEN Fail
              ELSE Once(Match(e.pos, m.items \o e.items),
                        LAMBDA nx : MatchElems(text, nx, els, i + 1)))

\* parseString: the entries in order; an optional group that does not match
\* contributes nothing
RECURSIVE ParseEntries(_, _, _, _)
ParseEntries(text, t, gs, i) ==
    IF i > Len(gs) THEN t
    ELSE Once(MatchElems(text, Match(t.pos, <<>>), gs[i].elems, 1), LAMBDA m :
              IF m.ok
              THEN Once(Match(m.pos, Append(t.items, m.items)),
                        LAMBDA nx : ParseEntries(text, nx, gs, i + 1))
              ELSE IF gs[i].optional THEN ParseEntries(text, t, gs, i + 1)
              ELSE Fail)

parseString(parser, text) == ParseEntries(text, Match(1, <<>>), parser, 1)

-----------------------------------------------------------------------------
\* get_rps_and_latency: the section loop

Zero == [mant |-> 0, exp |-> 0]
NoRun ==
    [threads |-> 0, connections |-> 0, starttime |-> Zero, endtime |-> Zero,
     rps |-> <<>>, latency |-> <<>>]

\* the body of the try block for one timed section
RawSummaryOf(t) ==
    LET n == Len(t)
        lat == [i \in 1..4 |-> no_units(t[3][i + 1])]
        rps == [i \in 1..4 |-> no_units(t[4][i + 1])]
        dist == [i \in 1..4 |-> no_units(t[5 + i][2])]
        over_sec == no_units(t[10][3])
        mb_read == no_units(t[10][5])
        non2xx == IF t[11][1] = NON2XX THEN ParseInt(t[11][2][1]) ELSE 0
        megabytes_per_sec == no_units(t[n - 1][2])
        calls == {lat[i] : i \in 1..4} \cup {rps[i] : i \in 1..4}
                     \cup {dist[i] : i \in 1..4}
                     \cup {over_sec, mb_read, megabytes_per_sec}
    IN  IF \E c \in calls : c.err # ""
        THEN [err |-> "ValueError", summary |-> NoRun]
        ELSE [err |-> "",
              summary |->
                [threads |-> ParseInt(t[1][1][1]),
                 connections |-> ParseInt(t[1][3][1]),
                 rps |->
                   [requests_per_sec |-> Float(t[n - 2][2][1]),
                    transfer_megabytes_per_sec |-> megabytes_per_sec.val,
                    request_count |-> ParseInt(t[10][1][1]),
                    megabytes_read |-> mb_read.val,
                    over_seconds |-> Scale(over_sec.val, 0 - 3),
                    non_2xx_count |-> non2xx,
                    thread_rps_mean |-> rps[1].val,
                    thread_rps_max |-> rps[3].val,
                    thread_rps_stdev |-> rps[2].val,
                    thread_rps_stdev_range |-> rps[4].val],
                 latency |->
                   [lat50 |-> dist[1].val,
                    lat75 |-> dist[2].val,
                    lat90 |-> dist[3].val,
                    lat99 |-> dist[4].val,
                    thread_mean |-> lat[1].val,
                    thread_max |-> lat[3].val,
                    thread_stdev |-> lat[2].val,
                    thread_stdev_range |-> lat[4].val],
                 starttime |-> Float(t[n][2][1]),
                 endtime |-> Float(t[n][5][1])]]

\* t = rps_parser.parseString(section); a ParseException is re-raised as
\* Exception("Problem parsing ...")
ParseSection(text) ==
    Once(parseString(get_rps_and_latency_parser, text), LAMBDA m :
         IF ~m.ok THEN [err |-> "Exception", summary |-> NoRun]
         ELSE RawSummaryOf(m.items))

\* a filter that lets every section through
EverySectionTimed(text) == TRUE

\* "STARTTIME" in section
IsTimed(text) == Contains(text, W("STARTTIME"))

\* "for index, section in text_sections.items()", in insertion order
RECURSIVE ParseSections(_, _, _)
ParseSections(ts, i, section_results) ==
    IF i > Len(ts) THEN [kind |-> "list", err |-> "", list |-> section_results]
    ELSE IF ~IsTimed(ts[i])
         THEN ParseSections(ts, i + 1, section_results)
    ELSE Once(ParseSection(ts[i]), LAMBDA r :
              IF r.err # "" THEN [kind |-> "raise", err |-> r.err, list |-> <<>>]
              ELSE Once(Append(section_results, r.summary),
                        LAMBDA nx : ParseSections(ts, i + 1, nx)))

get_rps_and_latency(rawlines) ==
    Once(Once(rawlines, LAMBDA ls : SplitLines(SplitInit, ls)), LAMBDA st :
         IF st.status = "none" THEN [kind |-> "None", err |-> "", list |-> <<>>]
         ELSE IF st.status = "KeyError"
              THEN [kind |-> "raise", err |-> "KeyError", list |-> <<>>]
         ELSE ParseSections(st.text_sections, 1, <<>>))

-----------------------------------------------------------------------------
\* Raw logs: a raw log is the concatenation of the output of several wrk
\* invocations (blocks), each a header between two dash lines and a report.

Dec(i, f) == N(ToDigits(i), f)

HeaderLines ==
    << DashLine,
       <<SP, W("Running"), W("Primer"), W("json")>>,
       <<SP, W("wrk"), W("-H"), W("http://tfb-server:8080/json")>>,
       DashLine >>

ReportLines(d) ==
    << <<W("Running"), W("15"), W("s"), W("test"), W("@"), W("http://tfb-server:8080/json")>>,
       <<SP, SP, IntTok(d.threads), W("threads"), W("and"), IntTok(d.connections), W("connections")>>,
       <<SP, SP>> \o Words(<<"Thread", "Stats", "Avg", "Stdev", "Max", "+/-", "Stdev">>),
       <<SP, SP, SP, SP, W("Latency"), Dec(1, <<2, 0>>), W(d.latunit), Dec(250, <<>>), W("us"),
         Dec(3, <<0, 5>>), W("s"), Dec(90, <<5>>), W("%")>>,
       <<SP, SP, SP, SP, W("Req/Sec"), Dec(10, <<0, 3>>), W("k"), Dec(980, <<1>>),
         Dec(12, <<>>), W("k"), Dec(70, <<>>), W("%")>>,
       <<SP, SP>> \o Words(<<"Latency", "Distribution">>),
       <<SP, SP, SP, Dec(50, <<>>), W("%"), Dec(900, <<>>), W("us")>>,
       <<SP, SP, SP, Dec(75, <<>>), W("%"), Dec(1, <<5>>), W("ms")>>,
       <<SP, SP, SP, Dec(90, <<>>), W("%"), Dec(2, <<>>), W("ms")>>,
       <<SP, SP, SP, Dec(99, <<>>), W("%"), Dec(1, <<0, 1>>), W("s")>>,
       <<SP, SP, IntTok(d.requests), W("requests"), W("in"), Dec(15, <<0, 0>>), W("s"), W(","),
         Dec(1, <<2, 5>>), W(d.readunit), W("read")>> >>
    \o (IF d.non2xx = 0 THEN <<>>
        ELSE << <<SP, SP>> \o NON2XX \o <<IntTok(d.non2xx)>> >>)
    \o (IF d.summary THEN << <<W("Requests/sec:"), d.rps>> >> ELSE <<>>)
    \o << <<W("Transfer/sec:"), Dec(512, <<5>>), W("KB")>> >>
    \o (IF d.timed
        THEN << <<W("STARTTIME"), IntTok(d.start)>>, <<W("ENDTIME"), IntTok(d.end), NL>> >>
        ELSE <<>>)

Run(name, threads, connections, rps, start, end) ==
    [name |-> name, threads |-> threads, connections |-> connections, rps |-> rps,
     start |-> start, end |-> end, timed |-> TRUE, summary |-> TRUE,
     latunit |-> "ms", readunit |-> "GB", requests |-> 1500, non2xx |-> 0, marker |-> FALSE]

RunA == Run("A", 8, 64, Dec(100, <<5>>), 10, 13)
RunB == [Run("B", 16, 128, Dec(350, <<>>), 11, 12) EXCEPT !.non2xx = 7, !.latunit = "us"]
RunC == [Run("C", 32, 256, Dec(350, <<0, 0>>), 12, 14) EXCEPT !.readunit = "MB"]
RunD == Run("D", 8, 512, Dec(200, <<>>), 14, 12)
\* a warmup or primer: the same report without the start/end lines
Primer == [Run("primer", 8, 8, Dec(900, <<>>), 0, 0) EXCEPT !.timed = FALSE]
\* a timed report whose "Requests/sec:" line is missing
Malformed == [Run("malformed", 8, 64, Dec(120, <<>>), 10, 13) EXCEPT !.summary = FALSE]
\* a timed report whose latency is given in minutes
BadUnit == [Run("badunit", 8, 64, Dec(130, <<>>), 10, 13) EXCEPT !.latunit = "m"]
\* an invocation that could not connect
Refused == [Run("refused", 8, 64, Dec(0, <<>>), 10, 13) EXCEPT !.marker = TRUE]

BlockLines(d) ==
    HeaderLines \o (IF d.marker THEN <<UnableLine>> ELSE ReportLines(d))

RECURSIVE RawText(_)
RawText(blocks) ==
    IF blocks = <<>> THEN <<>> ELSE BlockLines(Head(blocks)) \o RawText(Tail(blocks))

-----------------------------------------------------------------------------
\* get_verification

PASSFOR == <<SP, SP, SP, W("PASS"), W("for")>>

get_verification(verFile) == \E i \in 1..Len(verFile) : StartsWith(verFile[i], PASSFOR)

PassLine == <<SP, SP, SP, W("PASS"), W("for"), W("http://tfb-server:8080/json"), NL>>
FailLine == <<SP, SP, SP, W("FAIL"), W("for"), W("http://tfb-server:8080/json"), NL>>
FlushLeftLine == <<W("PASS"), W("for"), W("http://tfb-server:8080/json"), NL>>

VerificationLogs == {<<FailLine, PassLine>>, <<FailLine>>, <<FlushLeftLine>>, <<>>}

-----------------------------------------------------------------------------
\* get_stats: the dstat CSV, four information lines, two header rows, then
\* one row per sample; a cell is a token

RECURSIVE Names(_, _, _, _)
Names(header1, header2, i, lasth1) ==
    IF i > Len(header1) \/ i > Len(header2) THEN <<>>
    ELSE IF header1[i].w # ""
         THEN <<<<header1[i].w, header2[i].w>>>> \o Names(header1, header2, i + 1, header1[i].w)
         ELSE <<<<lasth1, header2[i].w>>>> \o Names(header1, header2, i + 1, lasth1)

\* the frame: column names (names[0] = "epoch", the index) and numeric rows
get_stats(csv) ==
    LET names == Names(csv[5], csv[6], 1, "")
    IN  [names |-> [names EXCEPT ![1] = <<"epoch", "">>],
         rows |-> [i \in 1..(Len(csv) - 6) |->
                      [j \in 1..Len(csv[i + 6]) |-> ParseInt(csv[i + 6][j])]]]

Column(frame, name) ==
    LET j == CHOOSE c \in 1..Len(frame.names) : frame.names[c] = name
    IN  [i \in 1..Len(frame.rows) |-> frame.rows[i][j]]

\* integer value of a float read from an Integer token
IntOf(d) == d.mant * Pow10(d.exp)

\* start, end = rpslat.starttime + 1, rpslat.endtime, without the ramp-up second
WindowStartAtStart(run) == IntOf(run.starttime)

WindowStart(run) == IntOf(run.starttime) + 1
WindowEnd(run) == IntOf(run.endtime)

\* frame.loc[start:end] on the increasing epoch index: the rows from the first
\* one with epoch >= start to the last one with epoch <= end
Loc(frame, start, end) ==
    LET first == 1 + Cardinality({i \in 1..Len(frame.rows) : frame.rows[i][1] < start})
        last == Cardinality({i \in 1..Len(frame.rows) : frame.rows[i][1] <= end})
    IN  [frame EXCEPT !.rows = SubSeq(frame.rows, first, last)]

-----------------------------------------------------------------------------
\* get_memory_usage, get_cpu_usage: pandas statistics over integral samples.
\* A statistic is NaN or the exact fraction num/den; the standard deviation is
\* kept as its square sqnum/sqden.

NaN == [nan |-> TRUE, num |-> 0, den |-> 1]
Frac(a, b) == [nan |-> FALSE, num |-> a, den |-> b]

RECURSIVE Sum(_)
Sum(xs) == IF xs = <<>> THEN 0 ELSE Head(xs) + Sum(Tail(xs))

RECURSIVE SumSq(_)
SumSq(xs) == IF xs = <<>> THEN 0 ELSE Head(xs) * Head(xs) + SumSq(Tail(xs))

Mean(xs) == IF Len(xs) = 0 THEN NaN ELSE Frac(Sum(xs), Len(xs))

Median(xs) ==
    LET n == Len(xs)
        sorted == SortSeq(xs, LAMBDA a, b : a < b)
    IN  IF n = 0 THEN NaN
        ELSE IF n % 2 = 1 THEN Frac(sorted[(n + 1) \div 2], 1)
        ELSE Frac(sorted[n \div 2] + sorted[n \div 2 + 1], 2)

Max(xs) ==
    IF Len(xs) = 0 THEN NaN
    ELSE Frac(CHOOSE x \in {xs[i] : i \in 1..Len(xs)} :
                  \A i \in 1..Len(xs) : xs[i] <= x, 1)

\* Series.std(): the sample standard deviation (ddof = 1), NaN below 2 samples
Std(xs) ==
    LET n == Len(xs) IN
    IF n < 2 THEN [nan |-> TRUE, sqnum |-> 0, sqden |-> 1]
    ELSE [nan |-> FALSE, sqnum |-> n * SumSq(xs) - Sum(xs) * Sum(xs), sqden |-> n * (n - 1)]

\* between with both bounds exclusive
BetweenExclusive(x, mean, stdev) ==
    /\ ~mean.nan
    /\ ~stdev.nan
    /\ (x * mean.den - mean.num) * (x * mean.den - mean.num) * stdev.sqden
           < stdev.sqnum * mean.den * mean.den

\* mean - stdev <= x <= mean + stdev; a comparison with NaN is false
Between(x, mean, stdev) ==
    /\ ~mean.nan
    /\ ~stdev.nan
    /\ (x * mean.den - mean.num) * (x * mean.den - mean.num) * stdev.sqden
           <= stdev.sqnum * mean.den * mean.den

Summary(xs) ==
    LET mean == Mean(xs)
        stdev == Std(xs)
        within == Cardinality({i \in 1..Len(xs) : Between(xs[i], mean, stdev)})
    IN  [mean |-> mean,
         median |-> Median(xs),
         max |-> Max(xs),
         stdev |-> stdev,
         stdev_range |-> IF Len(xs) = 0 THEN NaN ELSE Frac(100 * within, Len(xs))]

get_memory_usage(frame) == Summary(Column(frame, <<"memory usage", "used">>))
get_cpu_usage(frame) == Summary(Column(frame, <<"total cpu usage", "usr">>))

\* The stats files: one sample per second (or every other second) from epoch
\* 10 to LastEpoch, with constant, rising or stepping readings.

LastEpoch == 14

InfoLine == <<W("Dstat"), W("CSV"), W("output")>>
Header1 == Words(<<"epoch", "total cpu usage", "", "memory usage", "">>)
Header2 == Words(<<"epoch", "usr", "sys", "used", "free">>)

Reading(shape, t) ==
    CASE shape = "constant" -> 50
      [] shape = "rising" -> 5 * t - 10
      [] shape = "step" -> IF t < 13 THEN 50 ELSE 60

RECURSIVE SampleRows(_, _, _)
SampleRows(shape, t, every) ==
    IF t > LastEpoch THEN <<>>
    ELSE << <<IntTok(t), IntTok(Reading(shape, t) \div 5), IntTok(1),
              IntTok(Reading(shape, t)), IntTok(100 - Reading(shape, t))>> >>
         \o SampleRows(shape, t + every, every)

StatsFile(shape, every) ==
    <<InfoLine, InfoLine, InfoLine, InfoLine, Header1, Header2>> \o SampleRows(shape, 10, every)

StatsFiles == {StatsFile(sh, ev) : sh \in {"constant", "rising", "step"}, ev \in {1, 2}}

-----------------------------------------------------------------------------
\* get_test_results

MaxBlocks == 2

Blocks == {RunA, RunB, RunC, RunD, Primer, Malformed, BadUnit, Refused}
RawLogs == UNION {[1..n -> Blocks] : n \in 0..MaxBlocks}

TestTypes == <<"json", "db">>
testdic == [json |-> <<"actix", "gin">>, db |-> <<>>]

\* max(rpslats, key=...) that keeps the last of several maximal elements
RECURSIVE MaxLastFrom(_, _, _)
MaxLastFrom(rs, i, best) ==
    IF i > Len(rs) THEN best
    ELSE IF DecLeq(best.rps.requests_per_sec, rs[i].rps.requests_per_sec)
         THEN MaxLastFrom(rs, i + 1, rs[i])
         ELSE MaxLastFrom(rs, i + 1, best)

BestRunLast(rs) == MaxLastFrom(rs, 2, rs[1])

\* max(rpslats, key=lambda r: r.rps.requests_per_sec): a later element
\* replaces the best one only when its key is strictly greater
RECURSIVE MaxFrom(_, _, _)
MaxFrom(rs, i, best) ==
    IF i > Len(rs) THEN best
    ELSE IF DecLess(best.rps.requests_per_sec, rs[i].rps.requests_per_sec)
         THEN MaxFrom(rs, i + 1, rs[i])
         ELSE MaxFrom(rs, i + 1, best)

BestRun(rs) == MaxFrom(rs, 2, rs[1])

FrameworkSummary(framework, run, mem, cp) ==
    [name |-> framework,
     threads |-> run.threads,
     connections |-> run.connections,
     rps |-> run.rps,
     latency |-> run.latency,
     memory |-> mem,
     cpu |-> cp]

Frame == testdic[TestTypes[testtype]]
Outcome(i, kind, err) ==
    [testtype |-> TestTypes[testtype], framework |-> Frame[i], kind |-> kind, err |-> err]

\* the locals of the loop body before the row assigns them
NoLocals ==
    [raw |-> <<>>, rpslats |-> <<>>, rpslat |-> NoRun, stats |-> <<>>,
     statframe |-> [names |-> <<>>, rows |-> <<>>],
     memory |-> Summary(<<>>), cpu |-> Summary(<<>>)]

Init ==
    /\ pc = "testtype"
    /\ testtype = 0
    /\ index = 0
    /\ testresults = <<>>
    /\ verification = <<>>
    /\ raw = NoLocals.raw
    /\ rpslats = NoLocals.rpslats
    /\ rpslat = NoLocals.rpslat
    /\ stats = NoLocals.stats
    /\ statframe = NoLocals.statframe
    /\ memory = NoLocals.memory
    /\ cpu = NoLocals.cpu
    /\ outcomes = <<>>
    /\ SplitIdle
    /\ UnitIdle

\* for testtype, frameworkframe in testdic.items(): testresults[testtype] = []
NextTestType ==
    /\ pc = "testtype"
    /\ testtype < Len(TestTypes)
    /\ testtype' = testtype + 1
    /\ index' = 0
    /\ testresults' = [t \in (DOMAIN testresults) \cup {TestTypes[testtype + 1]} |->
                          IF t = TestTypes[testtype + 1] THEN <<>> ELSE testresults[t]]
    /\ pc' = "row"
    /\ UNCHANGED <<verification, raw, rpslats, rpslat, stats, statframe, memory, cpu,
                   outcomes, splitVars, unitVars>>

\* return testresults
Return ==
    /\ pc = "testtype"
    /\ testtype = Len(TestTypes)
    /\ pc' = "returned"
    /\ UNCHANGED <<testtype, index, testresults, verification, raw, rpslats, rpslat,
                   stats, statframe, memory, cpu, outcomes, splitVars, unitVars>>

\* the frame has no further row
EndOfFrame ==
    /\ pc = "row"
    /\ index = Len(Frame)
    /\ pc' = "testtype"
    /\ UNCHANGED <<testtype, index, testresults, verification, raw, rpslats, rpslat,
                   stats, statframe, memory, cpu, outcomes, splitVars, unitVars>>

\* the next row: if not get_verification(paths.verification): continue.
\* What the previous row left in the locals is dead (each is assigned before
\* it is read) and is dropped here.
Verify ==
    /\ pc = "row"
    /\ index < Len(Frame)
    /\ index' = index + 1
    /\ raw' = NoLocals.raw
    /\ rpslats' = NoLocals.rpslats
    /\ rpslat' = NoLocals.rpslat
    /\ stats' = NoLocals.stats
    /\ statframe' = NoLocals.statframe
    /\ memory' = NoLocals.memory
    /\ cpu' = NoLocals.cpu
    /\ \E v \in VerificationLogs :
         /\ verification' = v
         /\ IF get_verification(v)
            THEN /\ pc' = "verified"
                 /\ outcomes' = outcomes
            ELSE /\ pc' = "row"
                 /\ outcomes' = Append(outcomes, Outcome(index + 1, "unverified", ""))
    /\ UNCHANGED <<testtype, testresults, splitVars, unitVars>>

\* rpslats = get_rps_and_latency(paths.raw); if rpslats is None: continue
Parse ==
    /\ pc = "verified"
    /\ \E r \in RawLogs :
       \E got \in {get_rps_and_latency(RawText(r))} :
         /\ raw' = r
         /\ CASE got.kind = "None" ->
                     /\ pc' = "row"
                     /\ rpslats' = <<>>
                     /\ outcomes' = Append(outcomes, Outcome(index, "aborted", ""))
              [] got.kind = "raise" ->
                     /\ pc' = "raised"
                     /\ rpslats' = <<>>
                     /\ outcomes' = Append(outcomes, Outcome(index, "raised", got.err))
              [] got.kind = "list" ->
                     /\ pc' = "parsed"
                     /\ rpslats' = got.list
                     /\ outcomes' = outcomes
    /\ UNCHANGED <<testtype, index, testresults, verification, rpslat, stats, statframe,
                   memory, cpu, splitVars, unitVars>>

\* rpslat = max(rpslats, key=...); max of an empty list raises ValueError
Select ==
    /\ pc = "parsed"
    /\ IF rpslats = <<>>
       THEN /\ pc' = "raised"
            /\ rpslat' = rpslat
            /\ outcomes' = Append(outcomes, Outcome(index, "raised", "ValueError: max() arg is an empty sequence"))
       ELSE /\ pc' = "selected"
            /\ rpslat' = BestRun(rpslats)
            /\ outcomes' = outcomes
    /\ UNCHANGED <<testtype, index, testresults, verification, raw, rpslats, stats,
                   statframe, memory, cpu, splitVars, unitVars>>

\* statframe = get_stats(paths.stats).loc[start:end]; memory; cpu
Correlate ==
    /\ pc = "selected"
    /\ \E s \in StatsFiles :
       \E frame \in {Loc(get_stats(s), WindowStart(rpslat), WindowEnd(rpslat))} :
         /\ stats' = s
         /\ statframe' = frame
         /\ memory' = get_memory_usage(frame)
         /\ cpu' = get_cpu_usage(frame)
    /\ pc' = "correlated"
    /\ UNCHANGED <<testtype, index, testresults, verification, raw, rpslats, rpslat,
                   outcomes, splitVars, unitVars>>

\* testresults[testtype].append(summary)
AppendSummary ==
    /\ pc = "correlated"
    /\ testresults' = [testresults EXCEPT ![TestTypes[testtype]] =
                          Append(@, FrameworkSummary(Frame[index], rpslat, memory, cpu))]
    /\ outcomes' = Append(outcomes, Outcome(index, "summary", ""))
    /\ pc' = "row"
    /\ UNCHANGED <<testtype, index, verification, raw, rpslats, rpslat, stats, statframe,
                   memory, cpu, splitVars, unitVars>>

Next ==
    \/ NextTestType
    \/ Return
    \/ EndOfFrame
    \/ Verify
    \/ Parse
    \/ Select
    \/ Correlate
    \/ AppendSummary

Spec == Init /\ [][Next]_vars

-----------------------------------------------------------------------------
\* Properties of get_test_results

\* the row whose summary has just been appended; its locals are still held
JustAppended ==
    /\ pc = "row"
    /\ index > 0
    /\ outcomes # <<>>
    /\ outcomes[Len(outcomes)] = Outcome(index, "summary", "")

LastSummary == testresults[TestTypes[testtype]][Len(testresults[TestTypes[testtype]])]

\* the output of each invocation split alone, and its one section parsed
SplitAlone == [b \in Blocks |-> SplitLines(SplitInit, BlockLines(b))]
ParsedAlone == [b \in Blocks |-> ParseSection(SplitAlone[b].text_sections[1])]
GrammarAlone ==
    [b \in Blocks |-> parseString(get_rps_and_latency_parser, SplitAlone[b].text_sections[1])]

SectionText(b) == SplitAlone[b].text_sections[1]
Aborts(b) == SplitAlone[b].status = "none"
HasTimeMarker(b) == Contains(SectionText(b), W("STARTTIME"))
MatchesGrammar(b) == GrammarAlone[b].ok
Parseable(b) == ParsedAlone[b].err = ""

ParserLevelErrors ==
    {"Exception", "ValueError", "TypeError", "ValueError: max() arg is an empty sequence"}

\* C2: per-pair fault isolation: a pair that failed with a parser-level error,
\* or with the empty-sequence error of the selection, is skipped and the
\* aggregator goes on with the next pair; the batch is never stopped by it.
C2_FaultIsolation ==
    \A i \in 1..Len(outcomes) :
        (outcomes[i].kind = "raised" /\ outcomes[i].err \in ParserLevelErrors)
            => pc # "raised"

SummaryNames(t) ==
    LET ofType == SelectSeq(outcomes, LAMBDA o : o.testtype = t /\ o.kind = "summary")
    IN  [i \in 1..Len(ofType) |-> ofType[i].framework]

\* C3: expected exclusions: unverified and aborted frameworks contribute no
\* record and no error; the records of a test type are those of the other
\* frameworks, one each, in iteration order; a verified framework whose raw log
\* is not aborted and has at least one parseable timed section contributes its
\* summary (processing it never ends in an error); when get_test_results is
\* over, every test type has a collection.
C3_ExpectedExclusions ==
    /\ \A t \in DOMAIN testresults :
           [i \in 1..Len(testresults[t]) |-> testresults[t][i].name] = SummaryNames(t)
    /\ \A i \in 1..Len(outcomes) :
           outcomes[i].kind \in {"unverified", "aborted"} => outcomes[i].err = ""
    /\ (/\ pc = "raised"
        /\ \A k \in 1..Len(raw) : ~Aborts(raw[k]))
           => ~\E k \in 1..Len(raw) : HasTimeMarker(raw[k]) /\ Parseable(raw[k])
    /\ pc \in {"returned", "raised"}
           => \A t \in 1..Len(TestTypes) : TestTypes[t] \in DOMAIN testresults

Key(r) == r.rps.requests_per_sec

\* C4: the selected run is an element of rpslats whose requests_per_sec is
\* at least that of every element and greater than that of every element
\* before it (the first of the maximal ones); the appended FrameworkSummary
\* takes threads, connections, rps and latency from that run.
C4_BestRun ==
    /\ (pc \in {"selected", "correlated"} \/ JustAppended)
           => \E k \in 1..Len(rpslats) :
                  /\ rpslats[k] = rpslat
                  /\ \A j \in 1..Len(rpslats) : DecLeq(Key(rpslats[j]), Key(rpslat))
                  /\ \A j \in 1..(k - 1) : DecLess(Key(rpslats[j]), Key(rpslat))
    /\ JustAppended
           => /\ LastSummary.name = Frame[index]
              /\ LastSummary.threads = rpslat.threads
              /\ LastSummary.connections = rpslat.connections
              /\ LastSummary.rps = rpslat.rps
              /\ LastSummary.latency = rpslat.latency

\* two runs tie for the best requests_per_sec and differ otherwise
C4_Witness ==
    /\ JustAppended
    /\ Len(rpslats) = 2
    /\ DecEq(Key(rpslats[1]), Key(rpslats[2]))
    /\ rpslats[1].threads # rpslats[2].threads
    /\ LastSummary.threads = rpslats[1].threads

\* C5: the samples behind the memory and CPU statistics are exactly the rows
\* of the stats file with starttime + 1 <= epoch <= endtime; the row at
\* starttime and the rows after endtime are not among them.
C5_Window ==
    (pc = "correlated" \/ JustAppended)
        => LET all == get_stats(stats)
               s == IntOf(rpslat.starttime)
               e == IntOf(rpslat.endtime)
               used == SelectSeq(all.rows, LAMBDA row : s + 1 <= row[1] /\ row[1] <= e)
           IN  /\ statframe.rows = used
               /\ \A i \in 1..Len(statframe.rows) :
                      statframe.rows[i][1] # s /\ statframe.rows[i][1] <= e
               /\ memory = Summary([i \in 1..Len(used) |-> used[i][4]])
               /\ cpu = Summary([i \in 1..Len(used) |-> used[i][2]])

\* a non-empty window cut out of a file that also has a sample at starttime
\* and a sample after endtime
C5_Witness ==
    /\ pc = "correlated"
    /\ statframe.rows # <<>>
    /\ \E i \in 1..Len(get_stats(stats).rows) :
           get_stats(stats).rows[i][1] = IntOf(rpslat.starttime)
    /\ \E i \in 1..Len(get_stats(stats).rows) :
           get_stats(stats).rows[i][1] > IntOf(rpslat.endtime)

IsConstant(xs) == \A i, j \in 1..Len(xs) : xs[i] = xs[j]
ZeroStdev(sm) == ~sm.stdev.nan /\ sm.stdev.sqnum = 0
FullRange(sm) == ~sm.stdev_range.nan /\ sm.stdev_range.num = 100 * sm.stdev_range.den
NoRange(sm) == ~sm.stdev_range.nan /\ sm.stdev_range.num = 0
MemorySamples == Column(statframe, <<"memory usage", "used">>)
CpuSamples == Column(statframe, <<"total cpu usage", "usr">>)

\* C7 as stated: in every non-empty window whose samples are all equal, one
\* sample included, stdev is 0 and stdev_range is 100.
C7_ConstantWindow ==
    pc = "correlated"
        => /\ (Len(MemorySamples) >= 1 /\ IsConstant(MemorySamples))
                  => ZeroStdev(memory) /\ FullRange(memory)
           /\ (Len(CpuSamples) >= 1 /\ IsConstant(CpuSamples))
                  => ZeroStdev(cpu) /\ FullRange(cpu)

\* C7: in every window of two or more samples that are all equal, stdev is 0
\* and stdev_range is 100 (bounds inclusive); in a window of exactly one sample
\* stdev is NaN and stdev_range is 0.
C7_ConstantWindowOfTwo ==
    pc = "correlated"
        => /\ (Len(MemorySamples) >= 2 /\ IsConstant(MemorySamples))
                  => ZeroStdev(memory) /\ FullRange(memory)
           /\ (Len(CpuSamples) >= 2 /\ IsConstant(CpuSamples))
                  => ZeroStdev(cpu) /\ FullRange(cpu)
           /\ Len(MemorySamples) = 1 => memory.stdev.nan /\ NoRange(memory)
           /\ Len(CpuSamples) = 1 => cpu.stdev.nan /\ NoRange(cpu)

\* a window of three equal memory samples, and likewise of CPU samples
C7_Witness ==
    /\ pc = "correlated"
    /\ Len(MemorySamples) = 3
    /\ IsConstant(MemorySamples)
    /\ IsConstant(CpuSamples)
    /\ FullRange(memory)
    /\ FullRange(cpu)

\* C8: every RawSummary the parser produced, and so the selected run, has
\* endtime >= starttime.
C8_EndAfterStart ==
    /\ \A k \in 1..Len(rpslats) : DecLeq(rpslats[k].starttime, rpslats[k].endtime)
    /\ pc \in {"selected", "correlated"} => DecLeq(rpslat.starttime, rpslat.endtime)

\* the invocations of the parsed raw log whose section has the time marker
TimedBlocks == SelectSeq(raw, HasTimeMarker)

\* the record is the one of invocation b
RecordOf(rec, b) ==
    /\ rec.threads = b.threads
    /\ rec.connections = b.connections
    /\ Key(rec) = Float(b.rps)
    /\ rec.starttime = Float(IntTok(b.start))
    /\ rec.endtime = Float(IntTok(b.end))

OneRecordPerTimedSection ==
    LET timed == TimedBlocks
    IN  /\ Len(rpslats) = Len(timed)
        /\ \A k \in 1..Len(timed) : RecordOf(rpslats[k], timed[k])
        /\ pc = "selected" => \E k \in 1..Len(timed) : RecordOf(rpslat, timed[k])

\* get_rps_and_latency has been called on raw and rpslats is what it gave
RawIsParsed == pc \in {"parsed", "selected", "raised"}

\* C10 as stated: for a raw log that is split without abort and whose timed
\* sections all match the grammar, rpslats has one record per section with
\* the time marker, in section order, and none for a section without it.
C10_TimedMatchingGrammar ==
    (/\ RawIsParsed
     /\ \A k \in 1..Len(raw) : ~Aborts(raw[k])
     /\ \A k \in 1..Len(raw) : HasTimeMarker(raw[k]) => MatchesGrammar(raw[k]))
        => OneRecordPerTimedSection

\* C10: for a raw log that is split without abort and whose timed sections
\* all match the grammar and carry only recognised unit suffixes, rpslats has
\* one record per section with the time marker, in section order, and none
\* for a section without it; the selected run is one of the timed sections.
C10_TimedFilter ==
    (/\ RawIsParsed
     /\ \A k \in 1..Len(raw) : ~Aborts(raw[k])
     /\ \A k \in 1..Len(raw) : HasTimeMarker(raw[k]) => Parseable(raw[k]))
        => OneRecordPerTimedSection

\* a primer with the highest requests_per_sec before a timed run
C10_Witness ==
    /\ pc = "selected"
    /\ Len(raw) = 2
    /\ ~HasTimeMarker(raw[1])
    /\ HasTimeMarker(raw[2])
    /\ DecLess(Float(raw[2].rps), Float(raw[1].rps))
    /\ Len(rpslats) = 1
    /\ RecordOf(rpslat, raw[2])

====
